---- MODULE Spec2Model ----
(***************************************************************************)
(* Model of the YES24 metadata source plugin: YES24.identify (the query    *)
(* builder, the search-result parser, the thread-per-candidate fan-out and *)
(* its polling wait loop) and Worker (one detail-page fetch and parse).    *)
(*                                                                         *)
(* Python strings are TLA+ strings, handled with Len, SubSeq and \o.       *)
(* Python None is the string None for string-valued fields and the empty   *)
(* sequence NoValue for number- and date-valued fields.  The Hangul date   *)
(* suffixes of the detail page are written "Y", "M" and "D".               *)
(***************************************************************************)
EXTENDS Integers, Sequences, FiniteSets, TLC

None == "None"
NoValue == <<>>

\* ------------------------------------------------------------------ bounds
\* Largest number of hits a search-result page carries in the model.
MaxHits == 2

\* --------------------------------------------------------- string helpers
Ch(s, i) == SubSeq(s, i, i)

\* str.startswith at offset i (1-based)
MatchAt(s, i, pat) ==
    /\ i >= 1
    /\ i + Len(pat) - 1 <= Len(s)
    /\ SubSeq(s, i, i + Len(pat) - 1) = pat

\* str.endswith
EndsWith(s, suf) == Len(suf) <= Len(s) /\ MatchAt(s, Len(s) - Len(suf) + 1, suf)

\* str.find from offset i: the least index >= i where pat occurs, 0 if none
RECURSIVE FindFrom(_, _, _)
FindFrom(s, pat, i) ==
    IF i + Len(pat) - 1 > Len(s) THEN 0
    ELSE IF MatchAt(s, i, pat) THEN i
    ELSE FindFrom(s, pat, i + 1)

\* str.rfind: the greatest index where pat occurs, 0 if none
RECURSIVE RFindFrom(_, _, _)
RFindFrom(s, pat, i) ==
    IF i < 1 THEN 0
    ELSE IF MatchAt(s, i, pat) THEN i
    ELSE RFindFrom(s, pat, i - 1)

\* str.replace(old, new): every non-overlapping occurrence, left to right
RECURSIVE Replace(_, _, _)
Replace(s, old, new) ==
    LET k == FindFrom(s, old, 1) IN
    IF k = 0 THEN s
    ELSE SubSeq(s, 1, k - 1) \o new
            \o Replace(SubSeq(s, k + Len(old), Len(s)), old, new)

\* str.split(sep): always at least one part
RECURSIVE Split(_, _)
Split(s, sep) ==
    LET k == FindFrom(s, sep, 1) IN
    IF k = 0 THEN <<s>>
    ELSE <<SubSeq(s, 1, k - 1)>> \o Split(SubSeq(s, k + Len(sep), Len(s)), sep)

\* str.rsplit(sep, 1): one or two parts
RSplit1(s, sep) ==
    LET k == RFindFrom(s, sep, Len(s) - Len(sep) + 1) IN
    IF k = 0 THEN <<s>>
    ELSE <<SubSeq(s, 1, k - 1), SubSeq(s, k + Len(sep), Len(s))>>

\* str.strip(): leading and trailing blanks removed
RECURSIVE LStrip(_)
LStrip(s) == IF Len(s) > 0 /\ Ch(s, 1) = " " THEN LStrip(SubSeq(s, 2, Len(s))) ELSE s
RECURSIVE RStrip(_)
RStrip(s) ==
    IF Len(s) > 0 /\ Ch(s, Len(s)) = " " THEN RStrip(SubSeq(s, 1, Len(s) - 1)) ELSE s
Strip(s) == RStrip(LStrip(s))

\* sep.join(parts)
RECURSIVE StrJoin(_, _)
StrJoin(parts, sep) ==
    IF Len(parts) = 0 THEN ""
    ELSE IF Len(parts) = 1 THEN parts[1]
    ELSE parts[1] \o sep \o StrJoin(Tail(parts), sep)

Digits == {"0", "1", "2", "3", "4", "5", "6", "7", "8", "9"}
DigitVal(c) ==
    CASE c = "0" -> 0 [] c = "1" -> 1 [] c = "2" -> 2 [] c = "3" -> 3
      [] c = "4" -> 4 [] c = "5" -> 5 [] c = "6" -> 6 [] c = "7" -> 7
      [] c = "8" -> 8 [] c = "9" -> 9
IsDigits(s) == Len(s) > 0 /\ \A i \in 1..Len(s) : Ch(s, i) \in Digits

\* int() of a digit string
RECURSIVE ToInt(_)
ToInt(s) ==
    IF Len(s) = 0 THEN 0
    ELSE 10 * ToInt(SubSeq(s, 1, Len(s) - 1)) + DigitVal(Ch(s, Len(s)))

\* the length of the longest run of digits of s that starts at offset i (\d+)
RECURSIVE DigitRun(_, _)
DigitRun(s, i) ==
    IF i <= Len(s) /\ Ch(s, i) \in Digits THEN 1 + DigitRun(s, i + 1) ELSE 0

\* urllib.quote of one token: the characters outside the safe set are
\* percent-encoded
QuoteChar(c) ==
    CASE c = " " -> "%20"
      [] c = "&" -> "%26"
      [] c = "+" -> "%2B"
      [] c = "," -> "%2C"
      [] OTHER -> c
RECURSIVE quote(_)
quote(t) == IF Len(t) = 0 THEN "" ELSE QuoteChar(Ch(t, 1)) \o quote(SubSeq(t, 2, Len(t)))

\* the result of a call that may raise
Ok(v) == [raised |-> FALSE, val |-> v]
Raised == [raised |-> TRUE]
\* try: x = f() / except: x = dflt
Try(r, dflt) == IF r.raised THEN dflt ELSE r.val

\* ------------------------------------------------------ plugin constants
BASE_URL == "http://www.yes24.com"
BROWSE_URL == "http://www.yes24.com/24/Goods"
SEARCH_URL == "http://www.yes24.com/searchcorner/Search?domain=BOOK"


\* ------------------------------------------------------------ check_isbn
\* calibre's check_isbn: upper-case, drop everything but digits and X, then
\* accept a length of 10 or 13 with a right check digit (and not one digit
\* repeated); None otherwise.
RECURSIVE SanitizeIsbn(_)
SanitizeIsbn(s) ==
    IF Len(s) = 0 THEN ""
    ELSE LET c == IF Ch(s, 1) = "x" THEN "X" ELSE Ch(s, 1) IN
         (IF c \in Digits \cup {"X"} THEN c ELSE "") \o SanitizeIsbn(SubSeq(s, 2, Len(s)))

RECURSIVE WeightedSum(_, _, _)
\* sum over the first n characters of s of weight(i) * digit, i counted from 0
WeightedSum(s, n, isbn13) ==
    IF n = 0 THEN 0
    ELSE WeightedSum(s, n - 1, isbn13)
            + (IF isbn13 THEN (IF (n - 1) % 2 = 0 THEN 1 ELSE 3) ELSE n)
                * DigitVal(Ch(s, n))

check_isbn10(isbn) ==
    IF ~IsDigits(SubSeq(isbn, 1, 9)) THEN None
    ELSE LET check == WeightedSum(isbn, 9, FALSE) % 11 IN
         IF \/ (check = 10 /\ Ch(isbn, 10) = "X")
            \/ (Ch(isbn, 10) \in Digits /\ check = DigitVal(Ch(isbn, 10)))
         THEN isbn ELSE None

check_isbn13(isbn) ==
    IF ~IsDigits(isbn) THEN None
    ELSE LET c == 10 - (WeightedSum(isbn, 12, TRUE) % 10)
             check == IF c = 10 THEN 0 ELSE c IN
         IF check = DigitVal(Ch(isbn, 13)) THEN isbn ELSE None

check_isbn(raw) ==
    IF raw = None \/ raw = "" THEN None
    ELSE LET isbn == SanitizeIsbn(raw)
             all_same == IsDigits(isbn) /\ \A i \in 1..Len(isbn) : Ch(isbn, i) = Ch(isbn, 1)
         IN  IF Len(isbn) \notin {10, 13} THEN None
             ELSE IF all_same THEN None
             ELSE IF Len(isbn) = 10 THEN check_isbn10(isbn)
             ELSE check_isbn13(isbn)

\* --------------------------------------------------------- query builder
\* [quote(t) for t in s.split(' ')]
QuotedTokens(s) == LET parts == Split(s, " ") IN [i \in 1..Len(parts) |-> quote(parts[i])]

\* YES24._create_query; None when no query can be built
create_query(title, authors, identifiers) ==
    LET isbn == check_isbn(identifiers.isbn)
        title_tokens == IF title # None /\ title # "" THEN QuotedTokens(title) ELSE <<>>
        author_tokens == IF Len(authors) > 0 THEN QuotedTokens(authors[1]) ELSE <<>>
        tokens == title_tokens \o author_tokens
    IN  IF isbn # None THEN SEARCH_URL \o "&query=" \o isbn
        ELSE IF Len(tokens) = 0 THEN None
        ELSE SEARCH_URL \o "&query=" \o StrJoin(tokens, "+")

\* deliberately wrong variant: the book's URL built on the site's root
BookUrl_Base(yes24_id) == BASE_URL \o "/" \o yes24_id

\* '%s/%s' % (YES24.BROWSE_URL, yes24_id)
BookUrl(yes24_id) == BROWSE_URL \o "/" \o yes24_id

\* YES24.get_book_url
get_book_url(identifiers) ==
    IF identifiers.yes24 # None /\ identifiers.yes24 # ""
    THEN <<"yes24", identifiers.yes24, BookUrl(identifiers.yes24)>>
    ELSE NoValue

\* deliberately wrong variant: a hit without href is skipped
RECURSIVE parse_search_results_skip(_, _)
parse_search_results_skip(results, matches) ==
    IF Len(results) = 0 THEN [raised |-> FALSE, matches |-> matches]
    ELSE IF Len(results[1]) = 0 THEN parse_search_results_skip(Tail(results), matches)
    ELSE parse_search_results_skip(Tail(results), Append(matches, BASE_URL \o results[1][1]))

\* YES24._parse_search_results on the listing's td.goods_infogrp cells, each
\* given by the hrefs its goods_name anchor yields (none: the [0] raises).
\* Appends to matches until a cell raises.
RECURSIVE parse_search_results(_, _)
parse_search_results(results, matches) ==
    IF Len(results) = 0 THEN [raised |-> FALSE, matches |-> matches]
    ELSE IF Len(results[1]) = 0 THEN [raised |-> TRUE, matches |-> matches]
    ELSE parse_search_results(Tail(results), Append(matches, BASE_URL \o results[1][1]))


\* ------------------------------------------------------- detail-page parsing
\* A parsed detail page is given by what the fixed XPath lookups yield on it:
\*   h1a      //h1/a                          the text of each element (None: no text)
\*   ogtitle  //meta[og:title]/@content       attribute strings
\*   series   //span[@class="series"]/a       element texts
\*   brief    //div[@id="title"]/p            text_content() of each element
\*   isbn10   //dd[@class="isbn10"]/p         element texts
\*   descr    the description paragraph       its tostring() serialisation
\*   ogimage  //meta[og:image]/@content       attribute strings
\*   pdDate   //dd[@class="pdDate"]/p         element texts
\*   faults   the calls in which the library raises on this page

\* Worker.parse_yes24_id: re.search('yes24.com/24/[Gg]oods/(\d+)', url).groups(0)[0]
\* (the '.' of the pattern matches any character); raises when nothing matches
Yes24IdMatchAt(url, i) ==
    /\ MatchAt(url, i, "yes24")
    /\ i + 5 <= Len(url)
    /\ MatchAt(url, i + 6, "com/24/")
    /\ i + 13 <= Len(url) /\ Ch(url, i + 13) \in {"G", "g"}
    /\ MatchAt(url, i + 14, "oods/")
    /\ DigitRun(url, i + 19) >= 1

parse_yes24_id(url) ==
    LET hits == {i \in 1..Len(url) : Yes24IdMatchAt(url, i)} IN
    IF hits = {} THEN Raised
    ELSE LET i == CHOOSE k \in hits : \A m \in hits : k <= m IN
         Ok(SubSeq(url, i + 19, i + 19 + DigitRun(url, i + 19) - 1))

\* float(s), for the digit strings; anything else raises ValueError
ToFloat(s) == IF IsDigits(s) THEN Ok(<<ToInt(s)>>) ELSE Raised

\* Worker.parse_title_series: (title, series, series_index)
parse_title_series(page) ==
    LET from_h1 == Len(page.h1a) > 0
        title_node == IF from_h1 THEN page.h1a ELSE page.ogtitle
    IN  IF "title" \in page.faults THEN Raised
        ELSE IF Len(title_node) = 0 THEN Ok(<<None, None, NoValue>>)
        \* an attribute string has no .text; an element may have none
        ELSE IF ~from_h1 \/ title_node[1] = None THEN Raised
        ELSE LET title_text == Strip(title_node[1]) IN
             IF Len(page.series) = 0 THEN Ok(<<title_text, None, NoValue>>)
             ELSE IF page.series[1] = None THEN Raised
             ELSE LET series_grp == RSplit1(Strip(page.series[1]), "-") IN
                  IF Len(series_grp) = 2
                  THEN LET idx == ToFloat(series_grp[2]) IN
                       IF idx.raised THEN Raised
                       ELSE Ok(<<title_text, series_grp[1], idx.val>>)
                  ELSE Ok(<<title_text, series_grp[1], NoValue>>)

StripAll(parts) == [i \in 1..Len(parts) |-> Strip(parts[i])]

\* Worker.parse_authors; NoValue stands for the None of a page without brief
parse_authors(page) ==
    IF "authors" \in page.faults THEN Raised
    ELSE IF Len(page.brief) = 0 THEN Ok(NoValue)
    ELSE Ok(StripAll(Split(Split(page.brief[1], "|")[1], ",")))

\* Worker.parse_isbn
parse_isbn(page) ==
    IF "isbn" \in page.faults THEN Raised
    ELSE IF Len(page.isbn10) = 0 THEN Ok(None)
    ELSE IF page.isbn10[1] = None THEN Raised
    ELSE Ok(Strip(page.isbn10[1]))

\* Worker.parse_publisher
parse_publisher(page) ==
    IF "publisher" \in page.faults THEN Raised
    ELSE IF Len(page.brief) = 0 THEN Ok(None)
    ELSE LET bgrp == Split(page.brief[1], "|") IN
         IF Len(bgrp) > 3 THEN Ok(Strip(bgrp[Len(bgrp) - 1]))
         ELSE Ok(Strip(bgrp[Len(bgrp)]))

\* datetime.datetime(year, month, day) raises ValueError outside the calendar
IsLeap(y) == (y % 4 = 0 /\ y % 100 # 0) \/ y % 400 = 0
DaysIn(y, m) ==
    IF m = 2 THEN (IF IsLeap(y) THEN 29 ELSE 28)
    ELSE IF m \in {4, 6, 9, 11} THEN 30 ELSE 31
ValidDate(y, m, d) == y \in 1..9999 /\ m \in 1..12 /\ d >= 1 /\ d <= DaysIn(y, m)

\* Worker._convert_date_text: ^(\d+)Y (\d+)M (\d+)D$
convert_date_text(date_text) ==
    LET n1 == DigitRun(date_text, 1)
        p2 == 1 + n1 + 2
        n2 == DigitRun(date_text, p2)
        p3 == p2 + n2 + 2
        n3 == DigitRun(date_text, p3)
        matched ==
            /\ n1 >= 1 /\ MatchAt(date_text, 1 + n1, "Y ")
            /\ n2 >= 1 /\ MatchAt(date_text, p2 + n2, "M ")
            /\ n3 >= 1 /\ MatchAt(date_text, p3 + n3, "D")
            /\ Len(date_text) = p3 + n3
    IN  IF ~matched THEN Raised
        ELSE LET year == ToInt(SubSeq(date_text, 1, n1))
                 month == ToInt(SubSeq(date_text, p2, p2 + n2 - 1))
                 day == ToInt(SubSeq(date_text, p3, p3 + n3 - 1))
             IN  IF ValidDate(year, month, day)
                 THEN Ok(<<[year |-> year, month |-> month, day |-> day]>>)
                 ELSE Raised

\* Worker.parse_published_date
parse_published_date(page) ==
    IF "pubdate" \in page.faults THEN Raised
    ELSE IF Len(page.pdDate) = 0 THEN Ok(NoValue)
    ELSE IF page.pdDate[1] = None THEN Raised
    ELSE convert_date_text(Strip(page.pdDate[1]))

\* Worker.parse_comments
parse_comments(page) ==
    IF "comments" \in page.faults THEN Raised
    ELSE LET comments == IF Len(page.descr) > 0 THEN Strip(page.descr[1]) ELSE "" IN
         IF comments # "" THEN Ok(comments) ELSE Ok(None)

\* Worker.parse_cover, the URL part: the og:image address with a medium-size
\* suffix turned into the large one
CoverPageUrl(page) ==
    LET page_url == Strip(page.ogimage[1]) IN
    IF EndsWith(page_url, "/M") THEN Replace(page_url, "/M", "/L") ELSE page_url


\* ------------------------------------------------------------ input sets
\* The arguments of the identify calls of the model.
Ident(yes24, isbn) == [yes24 |-> yes24, isbn |-> isbn]
Calls ==
    { [title |-> "a b", authors |-> <<"k l">>, identifiers |-> Ident("1", None)],
      [title |-> None, authors |-> <<>>, identifiers |-> Ident("1", "978-8983920683")],
      [title |-> "a b", authors |-> <<"k l">>, identifiers |-> Ident(None, "978-8983920683")],
      [title |-> "a&b", authors |-> <<"k l", "m">>, identifiers |-> Ident("", "123")],
      [title |-> None, authors |-> <<>>, identifiers |-> Ident(None, "123")],
      [title |-> "", authors |-> <<>>, identifiers |-> Ident(None, None)] }

\* The hrefs a search hit can carry.
Hrefs == {"/24/Goods/1", "/24/goods/2"}
\* A search hit: the hrefs of its goods_name anchor, none or one.
Hits == {<<>>} \cup {<<h>> : h \in Hrefs}
\* The listings of at most MaxHits hits.
Listings == UNION {[1..n -> Hits] : n \in 0..MaxHits}

GoodPage ==
    [h1a |-> <<" Tale ">>, ogtitle |-> <<"Tale">>, series |-> <<"Saga-2">>,
     brief |-> <<"Kim, Lee | tr | Pub | 2011">>, isbn10 |-> <<" 0306406152">>,
     descr |-> <<" <p>x</p> ">>, ogimage |-> <<"i/1/M">>,
     pdDate |-> <<"2011Y 8M 30D">>, faults |-> {}]

\* The detail pages the server answers with when several workers run.
CorePages ==
    { GoodPage,
      [GoodPage EXCEPT !.ogimage = <<"i/9/L">>],
      [GoodPage EXCEPT !.h1a = <<>>, !.ogtitle = <<>>],
      [GoodPage EXCEPT !.faults = {"clean"}] }

\* Every detail page of the model: the good page with one lookup changed.
AllPages ==
    CorePages \cup
    { [GoodPage EXCEPT !.h1a = <<>>],
      [GoodPage EXCEPT !.h1a = <<None>>],
      [GoodPage EXCEPT !.faults = {"title"}],
      [GoodPage EXCEPT !.series = <<>>],
      [GoodPage EXCEPT !.series = <<"Saga">>],
      [GoodPage EXCEPT !.series = <<"Saga-x">>],
      [GoodPage EXCEPT !.series = <<"-2">>],
      [GoodPage EXCEPT !.brief = <<>>],
      [GoodPage EXCEPT !.brief = <<"Kim|Pub">>],
      [GoodPage EXCEPT !.faults = {"authors"}],
      [GoodPage EXCEPT !.faults = {"publisher"}],
      [GoodPage EXCEPT !.isbn10 = <<>>],
      [GoodPage EXCEPT !.isbn10 = <<None>>],
      [GoodPage EXCEPT !.isbn10 = <<"12">>],
      [GoodPage EXCEPT !.faults = {"isbn"}],
      [GoodPage EXCEPT !.descr = <<>>],
      [GoodPage EXCEPT !.descr = <<"  ">>],
      [GoodPage EXCEPT !.faults = {"comments"}],
      [GoodPage EXCEPT !.ogimage = <<>>],
      [GoodPage EXCEPT !.ogimage = <<" i/M/1/M ">>],
      [GoodPage EXCEPT !.faults = {"cover"}],
      [GoodPage EXCEPT !.pdDate = <<>>],
      [GoodPage EXCEPT !.pdDate = <<"2011Y 2M 30D">>],
      [GoodPage EXCEPT !.pdDate = <<"2011-08-30">>],
      [GoodPage EXCEPT !.faults = {"pubdate"}] }

\* How a detail request can fail before there is a page to parse.
FetchFailures == {"http404", "timeout", "error", "raw404", "unparsable"}

\* The detail URLs a lone worker is given.
DetailUrls == {BookUrl("1"), BookUrl("x"), BASE_URL \o "/24/goods/27?scode=3"}

\* ------------------------------------------------------------------ state
VARIABLES
    call,               \* the arguments of the identify call
    abort,              \* the abort event
    pc,                 \* where identify is
    exit_at,            \* which return statement identify left through
    ret,                \* what identify returned
    matches,            \* identify's list of candidate URLs
    requests,           \* the URLs identify has opened with its browser
    response,           \* what the search request came to
    workers,            \* the Worker objects, in list order
    start_log,          \* the indices of the workers, in the order of start()
    a_worker_is_alive,  \* the flag of the wait loop
    join_idx,           \* the position of the wait loop's for
    result_queue,       \* the records put, oldest first, each with its worker
    cover_cache,        \* plugin._identifier_to_cover_url_cache
    isbn_cache,         \* plugin._isbn_to_identifier_cache
    log,                \* what identify has logged
    dc_pc,              \* where download_cover is ("none": identify was called directly)
    cached_url,         \* download_cover's cached_url
    cover_queue         \* the result queue download_cover was given

vars == <<call, abort, pc, exit_at, ret, matches, requests, response, workers, start_log,
          a_worker_is_alive, join_idx, result_queue, cover_cache, isbn_cache, log,
          dc_pc, cached_url, cover_queue>>

\* Every URL a worker can be given, and what the parsers make of each URL and
\* of each page (computed once).
WorkerUrls == DetailUrls \cup {BASE_URL \o h : h \in Hrefs} \cup {BookUrl(c.identifiers.yes24) : c \in Calls}
Yes24IdOf == [url \in WorkerUrls |-> parse_yes24_id(url)]
\* The query of each call (computed once).
QueryOf == [c \in Calls |-> create_query(c.title, c.authors, c.identifiers)]
ParsedPages ==
    [page \in AllPages |->
        [title_series |-> parse_title_series(page),
         authors |-> parse_authors(page),
         isbn |-> parse_isbn(page),
         comments |-> parse_comments(page),
         cover_url |-> IF Len(page.ogimage) = 0 THEN None ELSE CoverPageUrl(page),
         publisher |-> parse_publisher(page),
         pubdate |-> parse_published_date(page)]]

EmptyDict == [k \in {} |-> None]
\* d[k] = v
DictSet(d, k, v) == [x \in (DOMAIN d) \cup {k} |-> IF x = k THEN v ELSE d[x]]
\* d.get(k, None)
DictGet(d, k) == IF k \in DOMAIN d THEN d[k] ELSE None

\* Python truth of a string or None
Truthy(s) == s # None /\ s # ""

\* the outcomes of the search request
NoResponse == [kind |-> "none", results |-> <<>>]
Answer(kind, results) == [kind |-> kind, results |-> results]

Init ==
    /\ call \in Calls
    /\ abort = FALSE
    /\ pc = "gather"
    /\ exit_at = "none"
    /\ ret = None
    /\ matches = <<>>
    /\ requests = <<>>
    /\ response = NoResponse
    /\ workers = <<>>
    /\ start_log = <<>>
    /\ a_worker_is_alive = FALSE
    /\ join_idx = 0
    /\ result_queue = <<>>
    /\ cover_cache = EmptyDict
    /\ isbn_cache = EmptyDict
    /\ log = <<>>
    /\ dc_pc = "none"
    /\ cached_url = None
    /\ cover_queue = <<>>

CoverKeep == UNCHANGED <<dc_pc, cached_url, cover_queue>>

\* the call the caller made, identify or download_cover, has returned
CallOver == IF dc_pc = "none" THEN pc = "done" ELSE dc_pc = "done"

\* abort.set(), by the caller's thread, while the call is in progress
SetAbort ==
    /\ ~abort
    /\ ~CallOver
    /\ abort' = TRUE
    /\ UNCHANGED <<call, pc, exit_at, ret, matches, requests, response, workers,
                   start_log, a_worker_is_alive, join_idx, result_queue,
                   cover_cache, isbn_cache, log>>
    /\ CoverKeep

\* ------------------------------------------------- identify: the candidates
Return(where, value) ==
    /\ pc' = "done"
    /\ exit_at' = where
    /\ ret' = value

GatherKeep == UNCHANGED <<call, abort, workers, start_log, a_worker_is_alive,
                          join_idx, result_queue, cover_cache, isbn_cache,
                          dc_pc, cached_url, cover_queue>>

\* identify with a YES24 id: no search, straight to the book's URL
GatherById ==
    /\ pc = "gather"
    /\ Truthy(call.identifiers.yes24)
    /\ matches' = Append(matches, BookUrl(call.identifiers.yes24))
    /\ pc' = "check_abort"
    /\ UNCHANGED <<exit_at, ret, requests, response, log>>
    /\ GatherKeep

\* identify without a YES24 id when no query can be built
GatherInsufficient ==
    /\ pc = "gather"
    /\ ~Truthy(call.identifiers.yes24)
    /\ QueryOf[call] = None
    /\ log' = Append(log, "Insufficient metadata to construct query")
    /\ Return("insufficient", None)
    /\ UNCHANGED <<matches, requests, response>>
    /\ GatherKeep

\* the search request is sent, and what comes of it
SearchQuery == QueryOf[call]
Searching ==
    /\ pc = "gather"
    /\ ~Truthy(call.identifiers.yes24)
    /\ SearchQuery # None
    /\ requests' = Append(requests, SearchQuery)

\* log.info('Querying: %s' % query), then what the attempt logs
QueryLog(entries) == log' = Append(log, "Querying") \o entries

\* br.open_novisit raises
GatherQueryFailed ==
    /\ Searching
    /\ response' = Answer("raise", <<>>)
    /\ QueryLog(<<"Failed to make identify query">>)
    /\ Return("query_failed", "error text")
    /\ UNCHANGED matches
    /\ GatherKeep

\* the response body is empty
GatherRawEmpty ==
    /\ Searching
    /\ response' = Answer("empty", <<>>)
    /\ QueryLog(<<"Failed to get raw result for query">>)
    /\ Return("raw_empty", None)
    /\ UNCHANGED matches
    /\ GatherKeep

\* reading or decoding the response, or fromstring, raises
GatherUnparsable ==
    /\ Searching
    /\ response' = Answer("unparsable", <<>>)
    /\ QueryLog(<<"Failed to parse YES24 page for query">>)
    /\ Return("unparsable", "Failed to parse YES24 page for query")
    /\ UNCHANGED matches
    /\ GatherKeep

\* the listing parses into a tree and _parse_search_results walks its hits
GatherParsed ==
    /\ Searching
    /\ \E results \in Listings :
        LET r == parse_search_results(results, matches) IN
        /\ response' = Answer("listing", results)
        /\ matches' = r.matches
        /\ IF r.raised
           THEN /\ QueryLog(<<"Failed to make identify query">>)
                /\ Return("query_failed", "error text")
           ELSE /\ QueryLog(<<>>)
                /\ pc' = "check_abort"
                /\ UNCHANGED <<exit_at, ret>>
    /\ GatherKeep


\* --------------------------------------------------- identify: the fan-out
\* Worker.__init__
NewWorker(url, relevance) ==
    [url |-> url, relevance |-> relevance, wpc |-> "new", page |-> NoValue,
     yes24_id |-> None, isbn |-> None, cover_url |-> None, mi |-> NoValue,
     log |-> <<>>]

\* deliberately wrong variant: the relevance counted from 1
NewWorkers_OneBased(ms) == [k \in 1..Len(ms) |-> NewWorker(ms[k], k)]

\* [Worker(url, result_queue, br, log, i, self) for i, url in enumerate(matches)]
NewWorkers(ms) == [k \in 1..Len(ms) |-> NewWorker(ms[k], k - 1)]

\* Thread.is_alive(): started and not yet finished
IsAlive(w) == w.wpc \notin {"new", "dead"}

\* the abort check after the candidates are known, then the construction of
\* the workers
CheckAbort ==
    /\ pc = "check_abort"
    /\ IF abort
       THEN /\ Return("aborted", None)
            /\ UNCHANGED <<workers, log>>
       ELSE /\ log' = Append(log, "Matches are")
            /\ workers' = NewWorkers(matches)
            /\ pc' = IF Len(matches) = 0 THEN "wait" ELSE "start"
            /\ UNCHANGED <<exit_at, ret>>
    /\ UNCHANGED <<call, abort, matches, requests, response, start_log,
                   a_worker_is_alive, join_idx, result_queue, cover_cache, isbn_cache>>
    /\ CoverKeep

\* the index of the worker the start loop starts next
NextToStart == Len(start_log) + 1

\* w.start(), then the pause before the next one
StartWorker ==
    /\ pc = "start"
    /\ workers' = [workers EXCEPT ![NextToStart].wpc = "run"]
    /\ start_log' = Append(start_log, NextToStart)
    /\ pc' = IF NextToStart = Len(workers) THEN "wait" ELSE "start"
    /\ UNCHANGED <<call, abort, exit_at, ret, matches, requests, response,
                   a_worker_is_alive, join_idx, result_queue, cover_cache,
                   isbn_cache, log>>
    /\ CoverKeep

\* ----------------------------------------------------- identify: the wait
WaitKeep == UNCHANGED <<call, abort, matches, requests, response, workers, start_log,
                        result_queue, cover_cache, isbn_cache, log,
                        dc_pc, cached_url, cover_queue>>

\* while not abort.is_set(): a_worker_is_alive = False
WhileCheck ==
    /\ pc = "wait"
    /\ IF abort
       THEN /\ Return("waited", None)
            /\ UNCHANGED <<a_worker_is_alive, join_idx>>
       ELSE /\ a_worker_is_alive' = FALSE
            /\ join_idx' = 1
            /\ pc' = IF Len(workers) = 0 THEN "after_for" ELSE "join"
            /\ UNCHANGED <<exit_at, ret>>
    /\ WaitKeep

\* deliberately wrong variant: the flag remembers only the worker looked at last
AliveFlag_LastOnly(flag, w) == IsAlive(w)

\* the flag after looking at worker w
AliveFlag(flag, w) == flag \/ IsAlive(w)

\* w.join(0.2) has returned, by the worker's end or by the timeout
Join ==
    /\ pc = "join"
    /\ IF abort
       THEN /\ pc' = "after_for"
            /\ UNCHANGED <<a_worker_is_alive, join_idx>>
       ELSE /\ a_worker_is_alive' = AliveFlag(a_worker_is_alive, workers[join_idx])
            /\ join_idx' = join_idx + 1
            /\ pc' = IF join_idx = Len(workers) THEN "after_for" ELSE "join"
    /\ UNCHANGED <<exit_at, ret>>
    /\ WaitKeep

\* if not a_worker_is_alive: break
AfterFor ==
    /\ pc = "after_for"
    /\ IF a_worker_is_alive
       THEN /\ pc' = "wait"
            /\ UNCHANGED <<exit_at, ret>>
       ELSE Return("waited", None)
    /\ UNCHANGED <<a_worker_is_alive, join_idx>>
    /\ WaitKeep

\* ------------------------------------------------------------- the worker
WorkerKeep == UNCHANGED <<call, abort, pc, exit_at, ret, matches, requests,
                          response, start_log, a_worker_is_alive, join_idx, log,
                          dc_pc, cached_url, cover_queue>>

\* Worker.get_details up to the call of parse_details: the request fails, or
\* the answer is no page, or there is a page to parse
GetDetails(w, fetched) ==
    LET log1 == Append(w.log, "YES24 url") IN
    IF ~fetched.ok
    THEN [w EXCEPT !.wpc = "dead",
                   !.log = Append(log1,
                        CASE fetched.failure \in {"http404", "raw404"} -> "URL malformed"
                          [] fetched.failure = "timeout" -> "YES24 timed out. Try again later."
                          [] fetched.failure = "error" -> "Failed to make details query"
                          [] OTHER -> "Failed to parse YES24 details page")]
    ELSE [w EXCEPT !.wpc = "parse", !.page = <<fetched.page>>, !.log = log1]

\* what the detail request of a worker can come to
FetchOutcomes(failures, pages) ==
    {[ok |-> FALSE, failure |-> f] : f \in failures} \cup {[ok |-> TRUE, page |-> p] : p \in pages}

\* log.exception for each of the named calls that raised
LogRaised(wlog, names, results) ==
    LET F[k \in 0..Len(names)] ==
            IF k = 0 THEN wlog
            ELSE IF results[k].raised THEN Append(F[k - 1], "Error parsing " \o names[k])
            ELSE F[k - 1]
    IN  F[Len(names)]

\* deliberately wrong variant: the cache is replaced by the one new entry
cache_identifier_to_cover_url_reset(cache, yes24_id, url) == [x \in {yes24_id} |-> url]

\* plugin.cache_identifier_to_cover_url(yes24_id, url)
cache_identifier_to_cover_url(cache, yes24_id, url) == DictSet(cache, yes24_id, url)

\* plugin.cache_isbn_to_identifier(isbn, yes24_id)
cache_isbn_to_identifier(cache, isbn, yes24_id) == DictSet(cache, isbn, yes24_id)

\* deliberately wrong variant: a cover already cached for the id is taken instead of the page's
parse_cover_cached(w, cache) ==
    LET page == w.page[1] IN
    IF "cover" \in page.faults THEN [raised |-> TRUE, w |-> w, cache |-> cache]
    ELSE IF Len(page.ogimage) = 0
    THEN [raised |-> FALSE, val |-> None, w |-> w, cache |-> cache]
    ELSE LET page_url == IF w.yes24_id \in DOMAIN cache THEN cache[w.yes24_id]
                         ELSE ParsedPages[page].cover_url IN
         [raised |-> FALSE, val |-> page_url,
          w |-> [w EXCEPT !.relevance = @ + 5],
          cache |-> IF Truthy(w.yes24_id)
                    THEN DictSet(cache, w.yes24_id, page_url)
                    ELSE cache]

\* Worker.parse_cover: what it returns, and what it does to the worker and the
\* cache on the way
parse_cover(w, cache) ==
    LET page == w.page[1] IN
    IF "cover" \in page.faults THEN [raised |-> TRUE, w |-> w, cache |-> cache]
    ELSE IF Len(page.ogimage) = 0
    THEN [raised |-> FALSE, val |-> None, w |-> w, cache |-> cache]
    ELSE LET page_url == ParsedPages[page].cover_url IN
         [raised |-> FALSE, val |-> page_url,
          w |-> [w EXCEPT !.relevance = @ + 5],
          cache |-> IF Truthy(w.yes24_id)
                    THEN cache_identifier_to_cover_url(cache, w.yes24_id, page_url)
                    ELSE cache]

\* Metadata(title, authors) and what parse_details sets on it up to the cover
FirstMetadata(title, authors, series, series_index, yes24_id, isbn, comments, cover_url) ==
    [title |-> title, authors |-> authors,
     series |-> IF Truthy(series) THEN series ELSE None,
     series_index |-> IF Truthy(series) THEN series_index ELSE NoValue,
     identifiers |-> Ident(yes24_id, IF Truthy(isbn) THEN isbn ELSE None),
     comments |-> comments,
     has_cover |-> Truthy(cover_url), cover_url |-> cover_url,
     publisher |-> None, pubdate |-> NoValue, language |-> None,
     source_relevance |-> NoValue]

\* deliberately wrong variant: only the title is required
MissingRequired_TitleOnly(title, authors, yes24_id) == ~Truthy(title)

\* the fields without which no record is made
MissingRequired(title, authors, yes24_id) ==
    ~Truthy(title) \/ Len(authors) = 0 \/ ~Truthy(yes24_id)

\* Worker.parse_details from its start to the cover
ParseDetails(w, cache) ==
    LET page == w.page[1]
        r_id == Yes24IdOf[w.url]
        r_ts == ParsedPages[page].title_series
        r_au == ParsedPages[page].authors
        yes24_id == Try(r_id, None)
        ts == Try(r_ts, <<None, None, NoValue>>)
        authors == Try(r_au, <<>>)
        log1 == LogRaised(w.log, <<"YES24 id", "title and series", "authors">>,
                          <<r_id, r_ts, r_au>>)
    IN  IF MissingRequired(ts[1], authors, yes24_id)
        THEN [w |-> [w EXCEPT !.wpc = "dead",
                              !.log = log1 \o <<"Could not find title/authors/YES24 id",
                                                 "YES24: Title: Authors:">>],
              cache |-> cache]
        ELSE LET r_isbn == ParsedPages[page].isbn
                 r_com == ParsedPages[page].comments
                 w1 == [w EXCEPT !.yes24_id = yes24_id,
                                 !.isbn = IF ~r_isbn.raised /\ Truthy(r_isbn.val)
                                          THEN r_isbn.val ELSE @]
                 r_cov == parse_cover(w1, cache)
                 cover_url == Try(r_cov, w1.cover_url)
                 mi == FirstMetadata(ts[1], authors, ts[2], ts[3], yes24_id,
                                     Try(r_isbn, None), Try(r_com, None), cover_url)
             IN  [w |-> [r_cov.w EXCEPT
                            !.wpc = "finish",
                            !.cover_url = cover_url,
                            !.mi = <<mi>>,
                            !.log = LogRaised(log1, <<"ISBN", "comments", "cover">>,
                                              <<r_isbn, r_com, r_cov>>)],
                  cache |-> r_cov.cache]

\* Worker.run from the start of the thread to the cover: the request, and on
\* a page the first part of parse_details, which ends with the write to the
\* cover cache
W_GetDetailsOf(i, failures, pages) ==
    /\ i \in 1..Len(workers)
    /\ workers[i].wpc = "run"
    /\ \E fetched \in FetchOutcomes(failures, pages) :
        LET w == GetDetails(workers[i], fetched) IN
        IF w.wpc = "dead"
        THEN /\ workers' = [workers EXCEPT ![i] = w]
             /\ UNCHANGED cover_cache
        ELSE LET r == ParseDetails(w, cover_cache) IN
             /\ workers' = [workers EXCEPT ![i] = r.w]
             /\ cover_cache' = r.cache
    /\ UNCHANGED <<result_queue, isbn_cache>>
    /\ WorkerKeep

\* the failures the server answers with when several workers run
CoreFailures == {"timeout"}

W_GetDetails(i) == W_GetDetailsOf(i, CoreFailures, CorePages)

\* plugin.clean_downloaded_metadata(mi): the language is not English, so
\* nothing is re-cased; the ISBN is kept only when check_isbn accepts it
clean_downloaded_metadata(mi) ==
    [mi EXCEPT !.identifiers.isbn = check_isbn(@)]

\* result_queue.put(mi)
QueuePut(queue, i, mi) == Append(queue, [worker |-> i, mi |-> mi])

\* Worker.parse_details from the publisher to the end of the record
FinishDetails(w) ==
    LET page == w.page[1]
        r_pub == ParsedPages[page].publisher
        r_date == ParsedPages[page].pubdate
    IN  [w EXCEPT !.wpc = "dead",
                  !.mi = <<[w.mi[1] EXCEPT !.publisher = Try(r_pub, @),
                                           !.pubdate = Try(r_date, @),
                                           !.language = "ko",
                                           !.source_relevance = <<w.relevance>>]>>,
                  !.log = LogRaised(@, <<"publisher", "published date">>,
                                    <<r_pub, r_date>>)]

\* the rest of parse_details: the last fields, the ISBN cache, then the record
\* is cleaned and put; an exception in the cleaning is caught and logged by
\* Worker.run
W_Finish(i) ==
    /\ i \in 1..Len(workers)
    /\ workers[i].wpc = "finish"
    /\ isbn_cache' = IF Truthy(workers[i].yes24_id) /\ Truthy(workers[i].isbn)
                     THEN cache_isbn_to_identifier(isbn_cache, workers[i].isbn,
                                                   workers[i].yes24_id)
                     ELSE isbn_cache
    /\ LET w == FinishDetails(workers[i]) IN
       IF "clean" \in w.page[1].faults
       THEN /\ workers' = [workers EXCEPT ![i] = [w EXCEPT !.log = Append(@, "get_details failed")]]
            /\ UNCHANGED result_queue
       ELSE LET mi == clean_downloaded_metadata(w.mi[1]) IN
            /\ workers' = [workers EXCEPT ![i] = [w EXCEPT !.mi = <<mi>>]]
            /\ result_queue' = QueuePut(result_queue, i, mi)
    /\ UNCHANGED cover_cache
    /\ WorkerKeep

\* ------------------------------------------------------------ specification
Next ==
    \/ SetAbort
    \/ GatherById
    \/ GatherInsufficient
    \/ GatherQueryFailed
    \/ GatherRawEmpty
    \/ GatherUnparsable
    \/ GatherParsed
    \/ CheckAbort
    \/ StartWorker
    \/ WhileCheck
    \/ Join
    \/ AfterFor
    \/ \E i \in 1..Len(workers) : W_GetDetails(i)
    \/ \E i \in 1..Len(workers) : W_Finish(i)

Spec == Init /\ [][Next]_vars


\* ------------------------------------------------------------ download_cover
\* plugin.cached_isbn_to_identifier(isbn)
cached_isbn_to_identifier(isbn) == DictGet(isbn_cache, isbn)

\* YES24.get_cached_cover_url
get_cached_cover_url(identifiers) ==
    LET yes24_id == IF identifiers.yes24 = None /\ identifiers.isbn # None
                    THEN cached_isbn_to_identifier(identifiers.isbn)
                    ELSE identifiers.yes24
    IN  IF Truthy(yes24_id) THEN DictGet(cover_cache, yes24_id) ELSE None

\* download_cover is called; the caches may hold entries of earlier lookups
PriorCaches ==
    { [cover |-> EmptyDict, isbn |-> EmptyDict],
      [cover |-> [id \in {"1"} |-> "i/0/L"], isbn |-> [k \in {"978-8983920683"} |-> "1"]] }

InitCover ==
    /\ call \in Calls
    /\ abort = FALSE
    /\ pc = "idle"
    /\ exit_at = "none"
    /\ ret = None
    /\ matches = <<>>
    /\ requests = <<>>
    /\ response = NoResponse
    /\ workers = <<>>
    /\ start_log = <<>>
    /\ a_worker_is_alive = FALSE
    /\ join_idx = 0
    /\ result_queue = <<>>
    /\ \E prior \in PriorCaches : cover_cache = prior.cover /\ isbn_cache = prior.isbn
    /\ log = <<>>
    /\ dc_pc = "start"
    /\ cached_url = None
    /\ cover_queue = <<>>

DownloadKeep == UNCHANGED <<call, abort, exit_at, ret, matches, requests, response,
                            workers, start_log, a_worker_is_alive, join_idx,
                            cover_cache, isbn_cache>>

\* the look into the cache, and on a miss the call of identify with a queue
\* of its own
DC_Start ==
    /\ dc_pc = "start"
    /\ cached_url' = get_cached_cover_url(call.identifiers)
    /\ IF cached_url' = None
       THEN /\ log' = Append(log, "No cached cover found, running identify")
            /\ pc' = "gather"
            /\ dc_pc' = "identify"
       ELSE /\ dc_pc' = "download"
            /\ UNCHANGED <<pc, log>>
    /\ UNCHANGED <<result_queue, cover_queue>>
    /\ DownloadKeep

\* the cover URLs the cache holds for the records of a queue
CachedCoversOf(queue) ==
    {get_cached_cover_url(queue[k].mi.identifiers) : k \in 1..Len(queue)} \ {None}

\* identify has returned: its queue is emptied, the records are sorted by the
\* caller's key and the first one with a cached cover gives the URL (the sort
\* key is the library's: any record with a cached cover can come first)
DC_AfterIdentify ==
    /\ dc_pc = "identify"
    /\ pc = "done"
    /\ IF abort
       THEN /\ dc_pc' = "done"
            /\ UNCHANGED <<result_queue, cached_url>>
       ELSE /\ result_queue' = <<>>
            /\ \/ /\ CachedCoversOf(result_queue) = {}
                  /\ cached_url' = None
               \/ cached_url' \in CachedCoversOf(result_queue)
            /\ dc_pc' = "download"
    /\ UNCHANGED <<pc, log, cover_queue>>
    /\ DownloadKeep

\* the end of download_cover: nothing to download, or aborted, or the image
\* is requested and put on the caller's queue unless the request raises
DC_Download ==
    /\ dc_pc = "download"
    /\ dc_pc' = "done"
    /\ IF cached_url = None
       THEN /\ log' = Append(log, "No cover found")
            /\ UNCHANGED cover_queue
       ELSE IF abort
       THEN UNCHANGED <<log, cover_queue>>
       ELSE \/ /\ log' = Append(log, "Downloading cover from")
               /\ cover_queue' = Append(cover_queue, cached_url)
            \/ /\ log' = Append(Append(log, "Downloading cover from"),
                                "Failed to download cover from")
               /\ UNCHANGED cover_queue
    /\ UNCHANGED <<pc, result_queue, cached_url>>
    /\ DownloadKeep

NextCover ==
    \/ Next
    \/ DC_Start
    \/ DC_AfterIdentify
    \/ DC_Download

CoverSpec == InitCover /\ [][NextCover]_vars

\* identify's own thread keeps running: every join returns within its timeout
\* and every other step of identify is local
IdentifyStep ==
    \/ GatherById \/ GatherInsufficient \/ GatherQueryFailed \/ GatherRawEmpty
    \/ GatherUnparsable \/ GatherParsed \/ CheckAbort \/ StartWorker
    \/ WhileCheck \/ Join \/ AfterFor

FairSpec == Spec /\ WF_vars(IdentifyStep)

\* A lone worker on any page of the model: identify has found one candidate,
\* started its worker and is polling.
InitParse ==
    /\ call = [title |-> "a b", authors |-> <<"k l">>,
               identifiers |-> Ident(None, "978-8983920683")]
    /\ abort = FALSE
    /\ pc = "wait"
    /\ exit_at = "none"
    /\ ret = None
    /\ \E url \in DetailUrls :
        /\ matches = <<url>>
        /\ response = Answer("listing", << <<SubSeq(url, Len(BASE_URL) + 1, Len(url))>> >>)
        /\ workers = <<[NewWorker(url, 0) EXCEPT !.wpc = "run"]>>
    /\ requests = <<SEARCH_URL \o "&query=9788983920683">>
    /\ start_log = <<1>>
    /\ a_worker_is_alive = FALSE
    /\ join_idx = 0
    /\ result_queue = <<>>
    /\ cover_cache = EmptyDict
    /\ isbn_cache = EmptyDict
    /\ log = <<"Querying", "Matches are">>
    /\ dc_pc = "none"
    /\ cached_url = None
    /\ cover_queue = <<>>

W_GetDetailsAny(i) == W_GetDetailsOf(i, FetchFailures, AllPages)

NextParse ==
    \/ SetAbort
    \/ WhileCheck
    \/ Join
    \/ AfterFor
    \/ W_GetDetailsAny(1)
    \/ W_Finish(1)

ParseSpec == InitParse /\ [][NextParse]_vars


\* ------------------------------------------------------------------ claims
\* identify has got past the abort check and made its workers
WorkersCreated == pc \in {"start", "wait", "join", "after_for"} \/ exit_at = "waited"
AllDead == \A i \in 1..Len(workers) : workers[i].wpc = "dead"
\* the records worker i has put
RecordsOf(i) == SelectSeq(result_queue, LAMBDA e : e.worker = i)
Logged(w, what) == \E k \in 1..Len(w.log) : w.log[k] = what

\* C1: once identify is past the abort check with abort unset, there is one
\* worker per entry of matches, worker i holding matches[i] and, until its
\* cover is parsed, the relevance i (counted from 0); the workers are started
\* one by one in list order, and all are started before the wait begins.
C1_OneWorkerPerCandidate ==
    WorkersCreated =>
        /\ Len(workers) = Len(matches)
        /\ \A i \in 1..Len(workers) :
            /\ workers[i].url = matches[i]
            /\ workers[i].wpc \in {"new", "run"} => workers[i].relevance = i - 1
            /\ workers[i].relevance \in {i - 1, i - 1 + 5}
            /\ workers[i].wpc # "new" <=> i <= Len(start_log)
        /\ start_log = [k \in 1..Len(start_log) |-> k]
        /\ IF pc = "start" THEN Len(start_log) < Len(workers)
                           ELSE Len(start_log) = Len(workers)

\* two workers for a candidate listed twice, both started
C1_Witness ==
    /\ pc = "wait"
    /\ Len(workers) = 2
    /\ workers[1].url = workers[2].url
    /\ start_log = <<1, 2>>
    /\ workers[2].relevance = 1

\* C2: identify returns from its wait only when abort is set or no worker is
\* alive, and once it is waiting with abort set or every worker finished it
\* does return, whether or not the workers ever finish.
C2_WaitsThenReturns ==
    /\ [](exit_at = "waited" => (abort \/ AllDead) /\ ret = None)
    /\ (pc \in {"wait", "join", "after_for"} /\ (abort \/ AllDead)) ~> (pc = "done")

\* identify has returned on abort while a worker is still running
C2_Witness ==
    /\ exit_at = "waited"
    /\ abort
    /\ \E i \in 1..Len(workers) : IsAlive(workers[i])

\* which parsers raised for a worker's URL and page
RaisedId(w) == Yes24IdOf[w.url].raised
RaisedTitle(w) == ParsedPages[w.page[1]].title_series.raised
RaisedAuthors(w) == ParsedPages[w.page[1]].authors.raised
RaisedIsbn(w) == ParsedPages[w.page[1]].isbn.raised
RaisedComments(w) == ParsedPages[w.page[1]].comments.raised
RaisedCover(w) == "cover" \in w.page[1].faults
RaisedPublisher(w) == ParsedPages[w.page[1]].publisher.raised
RaisedPubdate(w) == ParsedPages[w.page[1]].pubdate.raised
\* the worker has parsed a page to the end and nothing outside the parsers failed
ParsedToEnd(w) == w.wpc = "dead" /\ w.page # NoValue /\ "clean" \notin w.page[1].faults

\* C3 as stated: whichever single field fails to parse, the record is emitted.
C3_AnyFieldFailureKeepsRecord ==
    \A i \in 1..Len(workers) :
        LET w == workers[i] IN
        (/\ ParsedToEnd(w)
         /\ \/ RaisedId(w) \/ RaisedTitle(w) \/ RaisedAuthors(w) \/ RaisedIsbn(w)
            \/ RaisedComments(w) \/ RaisedCover(w) \/ RaisedPublisher(w)
            \/ RaisedPubdate(w))
        => Len(RecordsOf(i)) = 1

\* C3, amended: a failure to parse the ISBN, the comments, the cover, the
\* publisher or the publication date is logged, leaves the field empty, and the
\* record is still emitted; a failure to parse the YES24 id, the title/series
\* or the authors is logged and the other fields of the three are still tried,
\* but then the worker logs that they could not be found and emits no record.
C3_OptionalFieldFailureKeepsRecord ==
    \A i \in 1..Len(workers) :
        LET w == workers[i]
            recs == RecordsOf(i)
        IN  ParsedToEnd(w) =>
            /\ RaisedId(w) => Logged(w, "Error parsing YES24 id")
            /\ RaisedTitle(w) => Logged(w, "Error parsing title and series")
            /\ RaisedAuthors(w) => Logged(w, "Error parsing authors")
            /\ IF RaisedId(w) \/ RaisedTitle(w) \/ RaisedAuthors(w)
               THEN /\ recs = <<>>
                    /\ Logged(w, "Could not find title/authors/YES24 id")
               ELSE (RaisedIsbn(w) \/ RaisedComments(w) \/ RaisedCover(w)
                        \/ RaisedPublisher(w) \/ RaisedPubdate(w))
                    => /\ Len(recs) = 1
                       /\ RaisedIsbn(w) =>
                            recs[1].mi.identifiers.isbn = None /\ Logged(w, "Error parsing ISBN")
                       /\ RaisedComments(w) =>
                            recs[1].mi.comments = None /\ Logged(w, "Error parsing comments")
                       /\ RaisedCover(w) =>
                            /\ recs[1].mi.cover_url = None /\ ~recs[1].mi.has_cover
                            /\ Logged(w, "Error parsing cover")
                       /\ RaisedPublisher(w) =>
                            recs[1].mi.publisher = None /\ Logged(w, "Error parsing publisher")
                       /\ RaisedPubdate(w) =>
                            recs[1].mi.pubdate = NoValue /\ Logged(w, "Error parsing published date")

\* a record without publication date, put after the date failed to parse
C3_Witness ==
    /\ Len(workers) = 1
    /\ ParsedToEnd(workers[1])
    /\ RaisedPubdate(workers[1])
    /\ Len(result_queue) = 1
    /\ result_queue[1].mi.pubdate = NoValue
    /\ result_queue[1].mi.publisher = "Pub"

\* whether a worker given this URL and answered with this page puts a record
Emits(url, page) ==
    LET P == ParsedPages[page] IN
    /\ ~Yes24IdOf[url].raised
    /\ ~P.title_series.raised /\ Truthy(P.title_series.val[1])
    /\ ~P.authors.raised /\ Len(P.authors.val) > 0
    /\ "clean" \notin page.faults

\* the record of the worker with this index (from 0), URL and page
ExpectedRecord(url, page, index) ==
    LET P == ParsedPages[page]
        ts == P.title_series.val
        has_image == "cover" \notin page.faults /\ Len(page.ogimage) > 0
        cover == IF has_image THEN P.cover_url ELSE None
        isbn == IF P.isbn.raised THEN None ELSE P.isbn.val
    IN  [title |-> ts[1], authors |-> P.authors.val,
         series |-> IF Truthy(ts[2]) THEN ts[2] ELSE None,
         series_index |-> IF Truthy(ts[2]) THEN ts[3] ELSE NoValue,
         identifiers |-> [yes24 |-> Yes24IdOf[url].val,
                          isbn |-> IF Truthy(isbn) THEN check_isbn(isbn) ELSE None],
         comments |-> IF P.comments.raised THEN None ELSE P.comments.val,
         has_cover |-> Truthy(cover), cover_url |-> cover,
         publisher |-> IF P.publisher.raised THEN None ELSE P.publisher.val,
         pubdate |-> IF P.pubdate.raised THEN NoValue ELSE P.pubdate.val,
         language |-> "ko",
         source_relevance |-> <<index + (IF has_image THEN 5 ELSE 0)>>]

\* C4: in every interleaving, whether worker i puts a record, and the record,
\* are determined by worker i's own URL, page and index: a worker that has not
\* finished has put nothing, and a finished one has put exactly the record of
\* its own inputs, or nothing when its own fetch or parse failed.
C4_RecordDependsOnOwnInputs ==
    \A i \in 1..Len(workers) :
        LET w == workers[i] IN
        RecordsOf(i) =
            IF w.wpc = "dead" /\ w.page # NoValue /\ Emits(w.url, w.page[1])
            THEN <<[worker |-> i, mi |-> ExpectedRecord(w.url, w.page[1], i - 1)]>>
            ELSE <<>>

\* worker 1 died of an uncaught exception and worker 2, on the same URL, put
\* its record all the same
C4_Witness ==
    /\ Len(workers) = 2
    /\ AllDead
    /\ workers[1].url = workers[2].url
    /\ Logged(workers[1], "get_details failed")
    /\ Len(result_queue) = 1
    /\ result_queue[1].worker = 2
    /\ result_queue[1].mi.source_relevance = <<6>>

\* C5 as stated: a lookup with identifiers that ends without a record is tried
\* again with the query of the title and authors alone.
C5_RetriesWithoutIdentifiers ==
    LET retry == create_query(call.title, call.authors, Ident(None, None)) IN
    (/\ pc = "done"
     /\ call.identifiers # Ident(None, None)
     /\ exit_at = "waited" /\ ~abort /\ result_queue = <<>>
     /\ retry # None)
    => \E k \in 1..Len(requests) : requests[k] = retry

\* C6 as stated: with a YES24 id there is no search and exactly one worker is
\* started, for the book's URL.
C6_ByIdStartsOneWorker ==
    (pc = "done" /\ Truthy(call.identifiers.yes24)) =>
        /\ requests = <<>>
        /\ matches = <<BROWSE_URL \o "/" \o call.identifiers.yes24>>
        /\ Len(workers) = 1
        /\ workers[1].url = matches[1]
        /\ start_log = <<1>>

\* C6, amended: with a non-empty YES24 id there is no search request and the
\* candidate list is the one URL BROWSE_URL/<id>; exactly one worker is started
\* for it unless abort is already set when the candidates are complete, and
\* then identify returns without making a worker.
C6_ByIdOneCandidate ==
    Truthy(call.identifiers.yes24) =>
        /\ requests = <<>>
        /\ response = NoResponse
        /\ pc # "gather" => matches = <<BROWSE_URL \o "/" \o call.identifiers.yes24>>
        /\ pc = "done" =>
            \/ /\ exit_at = "aborted" /\ abort
               /\ workers = <<>> /\ start_log = <<>>
            \/ /\ exit_at = "waited"
               /\ Len(workers) = 1 /\ workers[1].url = matches[1]
               /\ start_log = <<1>>

\* identify given a YES24 id and an ISBN has returned after its one worker ran
C6_Witness ==
    /\ Truthy(call.identifiers.yes24)
    /\ call.identifiers.isbn # None
    /\ exit_at = "waited"
    /\ ~abort
    /\ start_log = <<1>>
    /\ workers[1].wpc = "dead"

\* C7 as stated: an entry of the cover cache is never removed and never
\* changed to another URL.
C7_EntriesNeverChange ==
    [][\A id \in DOMAIN cover_cache :
          id \in DOMAIN cover_cache' /\ cover_cache'[id] = cover_cache[id]]_vars

\* C7, amended: the workers share the cover cache, the ISBN cache and the
\* result queue; no entry of either cache is ever removed, and an entry of the
\* cover cache changes only to the cover URL just parsed by a worker for that
\* id (the last writer wins).
C7_EntriesNeverRemoved ==
    [][/\ DOMAIN cover_cache \subseteq DOMAIN cover_cache'
       /\ DOMAIN isbn_cache \subseteq DOMAIN isbn_cache'
       /\ \A id \in DOMAIN cover_cache' :
            (id \notin DOMAIN cover_cache \/ cover_cache'[id] # cover_cache[id])
            => \E i \in 1..Len(workers) :
                /\ workers[i].wpc = "run"
                /\ workers'[i].yes24_id = id
                /\ workers'[i].cover_url = cover_cache'[id]]_vars

\* download_cover has run identify on caches filled by an earlier lookup: the
\* entry of id 1 has been overwritten with another URL by a worker, the entry
\* of id 2 has been added, and a cover has been downloaded
C7_Witness ==
    /\ dc_pc = "done"
    /\ "978-8983920683" \in DOMAIN isbn_cache
    /\ DOMAIN cover_cache = {"1", "2"}
    /\ cover_cache["1"] = "i/9/L"
    /\ \E i \in 1..Len(workers) :
        workers[i].yes24_id = "1" /\ workers[i].cover_url = "i/9/L"
    /\ cover_queue # <<>>

\* identify could not complete its list of candidates
\* (that is: no query, or the request raised, or the answer was empty or
\* unparsable, or a hit of the listing raised)
GatherFailed ==
    \/ create_query(call.title, call.authors, call.identifiers) = None
    \/ response.kind \in {"raise", "empty", "unparsable"}
    \/ /\ response.kind = "listing"
       /\ \E k \in 1..Len(response.results) : response.results[k] = <<>>

\* C8: without a YES24 id, when identify cannot complete its list of
\* candidates it returns without making or starting a worker and with the
\* result queue as it was; when no query can be built it sends no request.
C8_NoWorkerWithoutCandidates ==
    (~Truthy(call.identifiers.yes24) /\ GatherFailed) =>
        /\ workers = <<>>
        /\ start_log = <<>>
        /\ result_queue = <<>>
        /\ pc \in {"gather", "done"}
        /\ pc = "done" => exit_at \in {"insufficient", "query_failed", "raw_empty", "unparsable"}
        /\ create_query(call.title, call.authors, call.identifiers) = None
            => requests = <<>> /\ (pc = "done" => exit_at = "insufficient")

\* identify has returned on a listing whose second hit raised, with the first
\* hit already among the matches
C8_Witness ==
    /\ pc = "done"
    /\ response.kind = "listing"
    /\ Len(response.results) = 2
    /\ response.results[2] = <<>>
    /\ Len(matches) = 1
    /\ workers = <<>>

====
